---- MODULE Spec2Model ----
(***************************************************************************)
(* Favorite Files Manager (src/main.py): the favorites store               *)
(* (FavoriteFilesManager), the list shown by MainWindow.refresh_list and   *)
(* the auto search of FindMovedFileDialog.  The file system watcher, whose  *)
(* code is not part of src/main.py, follows section 4.4 of the design.     *)
(*                                                                         *)
(* A path is a sequence of one-character strings, so that os.path.normpath *)
(* and os.path.join are computed on the characters as the library does     *)
(* (POSIX flavour, os.sep = "/").                                          *)
(***************************************************************************)
EXTENDS Integers, Sequences, FiniteSets, TLC

VARIABLES
    favorites,    \* FavoriteFilesManager.favorites: list of dicts
    file,         \* content of storage_path on disk
    phase,        \* "start" (no manager yet), "ready", "crashed" (__init__ raised)
    call,         \* the last call made on the manager and its arguments
    ret,          \* its outcome: "ok" (True, msg), "fail" (False, msg), "raise"
    list_widget,  \* MainWindow.list_widget: the items shown, in order
    failures      \* writes of the storage file that have failed so far

storeVars == <<favorites, file, phase, call, ret, list_widget, failures>>

VARIABLES
    hasFile,      \* the directories on disk that hold a file named filename
    loop_i,       \* auto_search: i, the index of the location being searched
    pc,           \* auto_search: "loop", "walk", "after", "done"
    stack,        \* os.walk: the directories still to visit, next one first
    found_files,  \* auto_search: found_files
    canceled,     \* progress.wasCanceled()
    path_input    \* FindMovedFileDialog.path_input text

searchVars == <<hasFile, loop_i, pc, stack, found_files, canceled, path_input>>

VARIABLES
    event,        \* the last "moved" event handled: its source and destination
    signals       \* refresh notifications emitted while handling that event

watchVars == <<event, signals>>

\* ------------------------------------------------------------------ bounds

\* Most records the store is let to hold.
MaxFav == 3

\* The same where the disk or the clock is what varies.
FewFav == 2

\* Most writes of the storage file that fail in one run.
MaxWriteFailures == 1

\* datetime.now() is read from 0..MaxTime.
MaxTime == 1

Times == 0..MaxTime

\* The one reading of a clock that does not advance during the run.
OneTick == {0}

\* Indexes handed to remove_favorite / update_favorite_path on a store of
\* at most cap records.
Indexes(cap) == -1..cap

Descriptions == {"", "note"}

\* Paths handed to add_favorite / update_favorite_path:
\* "/a", "/a/", "/a/../b", "" (normalized: "/a", "/a", "/b", ".").
RawPaths ==
    { <<"/", "a">>,
      <<"/", "a", "/">>,
      <<"/", "a", "/", ".", ".", "/", "b">>,
      << >> }

\* The same without the empty path: two files, one of them written in
\* two ways.
FewPaths == RawPaths \ { << >> }

\* The paths of the events the watcher is handed, and of the favorites
\* added beside it: "/a/" and "/a/../b".
WatchPaths == FewPaths \ { <<"/", "a">> }

\* What a write of the storage file may do: succeed, fail in open() (file
\* untouched), or fail in json.dump after open() truncated the file.
WriteOutcomes == {"ok", "open_fails", "write_fails"}

Healthy == {"ok"}

\* Depth of the chain of directories below the home directory.
TreeDepth == 8

\* ------------------------------------------------------------- path library

sep == "/"

\* str.split(sep): the pieces between the separators (empty pieces kept).
RECURSIVE SplitFrom(_, _, _)
SplitFrom(s, i, cur) ==
    IF i > Len(s) THEN <<cur>>
    ELSE IF s[i] = sep THEN <<cur>> \o SplitFrom(s, i + 1, <<>>)
    ELSE SplitFrom(s, i + 1, Append(cur, s[i]))

Split(s) == SplitFrom(s, 1, <<>>)

\* sep.join(comps)
RECURSIVE Join(_)
Join(comps) ==
    IF Len(comps) = 0 THEN <<>>
    ELSE IF Len(comps) = 1 THEN comps[1]
    ELSE comps[1] \o <<sep>> \o Join(Tail(comps))

\* str.count(sep)
RECURSIVE count(_)
count(s) ==
    IF Len(s) = 0 THEN 0
    ELSE (IF Head(s) = sep THEN 1 ELSE 0) + count(Tail(s))

StartsWith(s, prefix) ==
    /\ Len(s) >= Len(prefix)
    /\ SubSeq(s, 1, Len(prefix)) = prefix

DotDot == <<".", ".">>

\* The loop of posixpath.normpath over the components.
RECURSIVE NormComps(_, _, _)
NormComps(comps, new_comps, initial_slashes) ==
    IF Len(comps) = 0 THEN new_comps
    ELSE LET comp == Head(comps)
             rest == Tail(comps)
         IN  IF comp = <<>> \/ comp = <<".">>
             THEN NormComps(rest, new_comps, initial_slashes)
             ELSE IF \/ comp # DotDot
                     \/ (initial_slashes = 0 /\ Len(new_comps) = 0)
                     \/ (Len(new_comps) > 0 /\ new_comps[Len(new_comps)] = DotDot)
             THEN NormComps(rest, Append(new_comps, comp), initial_slashes)
             ELSE IF Len(new_comps) > 0
             THEN NormComps(rest, SubSeq(new_comps, 1, Len(new_comps) - 1),
                            initial_slashes)
             ELSE NormComps(rest, new_comps, initial_slashes)

\* os.path.normpath (posixpath)
normpath(path) ==
    IF Len(path) = 0 THEN <<".">>
    ELSE LET initial_slashes ==
                 IF ~StartsWith(path, <<sep>>) THEN 0
                 ELSE IF StartsWith(path, <<sep, sep>>)
                         /\ ~StartsWith(path, <<sep, sep, sep>>) THEN 2
                 ELSE 1
             joined == Join(NormComps(Split(path), <<>>, initial_slashes))
             result == [i \in 1..initial_slashes |-> sep] \o joined
         IN  IF Len(result) = 0 THEN <<".">> ELSE result

\* os.path.join(root, name), name relative
join(root, name) ==
    IF Len(root) = 0 \/ root[Len(root)] = sep THEN root \o name
    ELSE root \o <<sep>> \o name

\* ------------------------------------------------------------ storage file

\* The keys of a record, in the order the code inserts them into the dict.
KeyOrder == <<"path", "description", "added_on", "updated_on">>

\* json.dump of one dict: its key/value pairs in insertion order.
DumpObject(fav) ==
    LET keys == SelectSeq(KeyOrder, LAMBDA k : k \in DOMAIN fav)
    IN  [j \in 1..Len(keys) |-> <<keys[j], fav[keys[j]]>>]

\* json.dump(self.favorites, f, indent=2): the document written.
json_dump(favs) == [i \in 1..Len(favs) |-> DumpObject(favs[i])]

\* json.load of one object: the dict of its pairs.
LoadObject(pairs) ==
    [k \in {pairs[j][1] : j \in 1..Len(pairs)} |->
        LET j == CHOOSE j \in 1..Len(pairs) :
                     /\ pairs[j][1] = k
                     /\ \A m \in (j + 1)..Len(pairs) : pairs[m][1] # k
        IN  pairs[j][2]]

\* json.load(f) of a document json_dump wrote.
json_load(doc) == [i \in 1..Len(doc) |-> LoadObject(doc[i])]

Absent == [kind |-> "absent", doc |-> <<>>]

\* Text that is no JSON document (also what a write cut short leaves).
Malformed == [kind |-> "malformed", doc |-> <<>>]

\* Bytes that are no text in the locale's encoding.
Undecodable == [kind |-> "undecodable", doc |-> <<>>]

JsonFile(doc) == [kind |-> "json", doc |-> doc]

\* The storage file as the process may find it when it starts.
InitFiles == {Absent, Malformed, Undecodable, JsonFile(json_dump(<<>>))}

\* ---------------------------------------------------- FavoriteFilesManager

\* _load_favorites: "list" is the value returned, "raised" whether an
\* exception left it instead.  Only json.JSONDecodeError is caught.
_load_favorites(f) ==
    IF f.kind = "absent" THEN [list |-> <<>>, raised |-> FALSE]
    ELSE IF f.kind = "json" THEN [list |-> json_load(f.doc), raised |-> FALSE]
    ELSE IF f.kind = "malformed" THEN [list |-> <<>>, raised |-> FALSE]
    ELSE [list |-> <<>>, raised |-> TRUE]

\* The file opened with "a": the document lands behind what the file held.
_save_favorites_AppendMode(favs, f, wr) ==
    IF wr = "ok"
    THEN IF f.kind = "absent" THEN JsonFile(json_dump(favs)) ELSE Malformed
    ELSE f

\* _save_favorites: the file after the attempt.  open(..., "w") truncates
\* before json.dump writes.
_save_favorites(favs, f, wr) ==
    IF wr = "ok" THEN JsonFile(json_dump(favs))
    ELSE IF wr = "open_fails" THEN f
    ELSE Malformed

\* What a call leaves: the list, the file, what the caller gets ("ok" for
\* (True, msg), "fail" for (False, msg), "raise" for an exception) and
\* whether the file was written ("none", "ok", "failed").
Outcome(favs, f, r, w) == [favorites |-> favs, file |-> f, ret |-> r, wrote |-> w]

\* The tail of a mutating method: self._save_favorites() then return True;
\* an exception of the write leaves the method before the return.
Saved(favs, f, wr) ==
    IF wr = "ok" THEN Outcome(favs, _save_favorites(favs, f, wr), "ok", "ok")
    ELSE Outcome(favs, _save_favorites(favs, f, wr), "raise", "failed")

\* The check without `index < 0`.
InvalidIndex_NoNegativeCheck(favs, index) ==
    Len(favs) = 0 \/ index >= Len(favs)

\* `not self.favorites or index < 0 or index >= len(self.favorites)`
InvalidIndex(favs, index) ==
    Len(favs) = 0 \/ index < 0 \/ index >= Len(favs)

\* The position (from 1) a Python index names in a list: a negative index
\* counts from the end.
Position(favs, index) == IF index < 0 THEN Len(favs) + index + 1 ELSE index + 1

\* A removal that fills the hole with the last record.
pop_SwapWithLast(favs, index) ==
    [j \in 1..(Len(favs) - 1) |->
        IF j = Position(favs, index) THEN favs[Len(favs)] ELSE favs[j]]

\* list.pop(index)
pop(favs, index) ==
    [j \in 1..(Len(favs) - 1) |->
        IF j < Position(favs, index) THEN favs[j] ELSE favs[j + 1]]

\* d[key] = value on a dict
SetItem(d, key, value) ==
    [k \in DOMAIN d \cup {key} |-> IF k = key THEN value ELSE d[k]]

\* add_favorite without the loop that looks for the path.
add_favorite_NoDuplicateCheck(favs, f, path, description, now, wr) ==
    Saved(Append(favs, [path |-> normpath(path),
                        description |-> description,
                        added_on |-> now]), f, wr)

\* add_favorite comparing the path as given, not normalized_path.
add_favorite_RawCompare(favs, f, path, description, now, wr) ==
    IF \E i \in 1..Len(favs) : favs[i]["path"] = path
    THEN Outcome(favs, f, "fail", "none")
    ELSE Saved(Append(favs, [path |-> normpath(path),
                             description |-> description,
                             added_on |-> now]), f, wr)

add_favorite(favs, f, path, description, now, wr) ==
    LET normalized_path == normpath(path)
    IN  IF \E i \in 1..Len(favs) : favs[i]["path"] = normalized_path
        THEN Outcome(favs, f, "fail", "none")
        ELSE Saved(Append(favs, [path |-> normalized_path,
                                 description |-> description,
                                 added_on |-> now]), f, wr)

\* remove_favorite returning True without self._save_favorites().
remove_favorite_NoSave(favs, f, index, wr) ==
    IF InvalidIndex(favs, index) THEN Outcome(favs, f, "fail", "none")
    ELSE Outcome(pop(favs, index), f, "ok", "none")

\* remove_favorite that writes the shortened list first and pops only
\* when the write went through.
remove_favorite_WriteThenPop(favs, f, index, wr) ==
    IF InvalidIndex(favs, index) THEN Outcome(favs, f, "fail", "none")
    ELSE IF wr = "ok" THEN Saved(pop(favs, index), f, wr)
    ELSE Outcome(favs, _save_favorites(pop(favs, index), f, wr), "raise", "failed")

remove_favorite(favs, f, index, wr) ==
    IF InvalidIndex(favs, index) THEN Outcome(favs, f, "fail", "none")
    ELSE Saved(pop(favs, index), f, wr)

\* The method without its self._save_favorites().
update_favorite_path_NoSave(favs, f, index, new_path, now, wr) ==
    IF InvalidIndex(favs, index) THEN Outcome(favs, f, "fail", "none")
    ELSE LET k == Position(favs, index)
             relocated == SetItem(SetItem(favs[k], "path", normpath(new_path)),
                                  "updated_on", now)
         IN  Outcome([favs EXCEPT ![k] = relocated], f, "ok", "none")

update_favorite_path(favs, f, index, new_path, now, wr) ==
    IF InvalidIndex(favs, index) THEN Outcome(favs, f, "fail", "none")
    ELSE LET k == Position(favs, index)
             relocated == SetItem(SetItem(favs[k], "path", normpath(new_path)),
                                  "updated_on", now)
         IN  Saved([favs EXCEPT ![k] = relocated], f, wr)

\* MainWindow.refresh_list: one item per favorite, in list order.
refresh_list(favs) ==
    [i \in 1..Len(favs) |->
        <<favs[i]["path"],
          IF "description" \in DOMAIN favs[i] THEN favs[i]["description"]
          ELSE "No description">>]

NoCall == [op |-> "none", index |-> 0, path |-> <<>>]

\* The records add_favorite and update_favorite_path leave in the list.
StoredRecords ==
    LET fresh == [path : {normpath(p) : p \in FewPaths},
                  description : Descriptions,
                  added_on : OneTick]
    IN  fresh \cup {SetItem(r, "updated_on", t) : r \in fresh, t \in Times}

StoredLists == UNION {[1..n -> StoredRecords] : n \in 0..FewFav}

\* A document edited by hand: every object with its pairs in the opposite
\* order, behind a stale "path" pair that the later one overrides.
Edited(doc) ==
    [i \in 1..Len(doc) |->
        << <<"path", << >> >> >>
        \o [j \in 1..Len(doc[i]) |-> doc[i][Len(doc[i]) + 1 - j]]]

\* The storage file as a restart may find it: also a list of records, as
\* the program wrote it or edited by hand.
StoredFiles ==
    {Absent, Malformed, Undecodable}
    \cup {JsonFile(json_dump(l)) : l \in StoredLists}
    \cup {JsonFile(Edited(json_dump(l))) : l \in StoredLists}

\* ---------------------------------------------------------------- actions

StoreInit ==
    /\ favorites = <<>>
    /\ file \in InitFiles
    /\ phase = "start"
    /\ call = NoCall
    /\ ret = "none"
    /\ list_widget = <<>>
    /\ failures = 0

\* MainWindow.__init__: FavoriteFilesManager() then refresh_list().  Also a
\* later start of the program on the file the earlier run left.
Construct ==
    LET loaded == _load_favorites(file)
    IN  /\ call' = [op |-> "init", index |-> 0, path |-> <<>>]
        /\ file' = file
        /\ failures' = failures
        /\ IF loaded.raised
           THEN /\ favorites' = <<>>
                /\ phase' = "crashed"
                /\ ret' = "raise"
                /\ list_widget' = <<>>
           ELSE /\ favorites' = loaded.list
                /\ phase' = "ready"
                /\ ret' = "ok"
                /\ list_widget' = refresh_list(loaded.list)

\* The outcome of a call taken over, with the caller's
\* `if success: self.refresh_list()`.
Apply(out) ==
    /\ out.wrote = "failed" => failures < MaxWriteFailures
    /\ failures' = IF out.wrote = "failed" THEN failures + 1 ELSE failures
    /\ favorites' = out.favorites
    /\ file' = out.file
    /\ ret' = out.ret
    /\ list_widget' = IF out.ret = "ok" THEN refresh_list(out.favorites)
                      ELSE list_widget
    /\ phase' = phase

\* The three calls below reach the manager with every argument its methods
\* accept; the window passes fewer (no empty path, no negative index, no
\* new path equal to the old one).
\* P: the paths given, T: the readings of the clock, D: the descriptions,
\* W: the outcomes of the write, cap: the most records held.
AddFavorite(P, T, D, W, cap) ==
    /\ phase = "ready"
    /\ \E path \in P, description \in D, now \in T, wr \in W :
          LET out == add_favorite(favorites, file, path, description, now, wr)
          IN  /\ Len(out.favorites) <= cap
              /\ call' = [op |-> "add", index |-> 0, path |-> path]
              /\ Apply(out)

RemoveFavorite(W, cap) ==
    /\ phase = "ready"
    /\ \E index \in Indexes(cap), wr \in W :
          /\ call' = [op |-> "remove", index |-> index, path |-> <<>>]
          /\ Apply(remove_favorite(favorites, file, index, wr))

UpdateFavoritePath(P, T, W, cap) ==
    /\ phase = "ready"
    /\ \E index \in Indexes(cap), new_path \in P, now \in T, wr \in W :
          /\ call' = [op |-> "update", index |-> index, path |-> new_path]
          /\ Apply(update_favorite_path(favorites, file, index, new_path, now, wr))

\* _save_favorites() on the list as it was loaded, then _load_favorites()
\* again.
SaveAndReload ==
    /\ phase = "ready"
    /\ LET written == _save_favorites(favorites, file, "ok")
           loaded == _load_favorites(written)
       IN  /\ file' = written
           /\ favorites' = loaded.list
           /\ ret' = IF loaded.raised THEN "raise" ELSE "ok"
    /\ call' = [op |-> "reload", index |-> 0, path |-> << >>]
    /\ UNCHANGED <<phase, list_widget, failures>>

\* The "Refresh List" button.
RefreshList ==
    /\ phase = "ready"
    /\ list_widget' = refresh_list(favorites)
    /\ call' = [op |-> "refresh", index |-> 0, path |-> <<>>]
    /\ ret' = "none"
    /\ UNCHANGED <<favorites, file, phase, failures>>

\* ---------------------------------------------------- file system watcher

NoEvent == [src_path |-> << >>, dest_path |-> << >>]

WatchIdle ==
    /\ event = NoEvent
    /\ signals = 0

\* The records whose path is the event's normalized source.
Matching(favs, src_path) ==
    {k \in 1..Len(favs) : favs[k]["path"] = normpath(src_path)}

\* The handler of an "entry renamed/moved" event: both paths normalized,
\* the records scanned for one at the source, update_favorite_path called on
\* it with the destination, then the caller notified, which refreshes the
\* list shown.  No record at the source: the event is ignored.  What the
\* handler does with a failed write is not laid down: it may or may not
\* notify.
OnMoved(P, T, W) ==
    /\ phase = "ready"
    /\ \E src_path \in P, dest_path \in P, now \in T, wr \in W :
          /\ event' = [src_path |-> src_path, dest_path |-> dest_path]
          /\ IF Matching(favorites, src_path) = {}
             THEN /\ call' = [op |-> "moved", index |-> 0, path |-> << >>]
                  /\ ret' = "none"
                  /\ signals' = 0
                  /\ UNCHANGED <<favorites, file, phase, list_widget, failures>>
             ELSE \E k \in Matching(favorites, src_path) :
                    LET out == update_favorite_path(favorites, file, k - 1,
                                                    normpath(dest_path), now, wr)
                    IN  /\ out.wrote = "failed" => failures < MaxWriteFailures
                        /\ failures' = IF out.wrote = "failed"
                                       THEN failures + 1 ELSE failures
                        /\ call' = [op |-> "moved", index |-> k - 1,
                                    path |-> normpath(dest_path)]
                        /\ favorites' = out.favorites
                        /\ file' = out.file
                        /\ ret' = out.ret
                        /\ phase' = phase
                        /\ \E n \in IF out.ret = "ok" THEN {1} ELSE {0, 1} :
                              /\ signals' = n
                              /\ list_widget' = IF n = 1
                                                THEN refresh_list(out.favorites)
                                                ELSE list_widget

\* ------------------------------------------------------------ auto search

\* The directory tree searched: "/" holds "h" (the home directory), which
\* holds "D" (Documents) and a chain d/d/.../d of TreeDepth directories.
Root == <<sep>>

Home == <<sep, "h">>

Documents == join(Home, <<"D">>)

\* A folder of the list that does not exist on this machine.
Downloads == join(Home, <<"W">>)

RECURSIVE Chain(_)
Chain(k) == IF k = 0 THEN Home ELSE join(Chain(k - 1), <<"d">>)

Dirs == {Root, Home, Documents} \cup {Chain(k) : k \in 1..TreeDepth}

\* The name of the bookmarked file, os.path.basename(original_path).
filename == <<"f">>

\* os.scandir(top): the sub-directory names, in the order listed.
ListDirs(top) ==
    IF top = Root THEN << <<"h">> >>
    ELSE IF top = Home THEN << <<"D">>, <<"d">> >>
    ELSE IF \E k \in 1..(TreeDepth - 1) : top = Chain(k) THEN << <<"d">> >>
    ELSE << >>

\* os.scandir(top): the names of the plain files.
ListFiles(top, holders) ==
    IF top \in holders THEN << <<"g">>, filename >> ELSE << <<"g">> >>

\* fnmatch.filter(files, pattern) for a pattern without wildcard characters.
fnmatch_filter(files, pattern) == SelectSeq(files, LAMBDA name : name = pattern)

\* The directories where the file may lie: the levels around the limit.
FileDirs == {Home, Documents, Chain(1), Chain(5), Chain(6), Chain(7), Chain(TreeDepth)}

\* common_locations of the non-Windows branch: "/", "~", "~/Documents" and
\* the remaining folders of the list, which stand here as one absent folder.
common_locations == <<Root, Home, Documents, Downloads>>

\* The 5 of the depth check.
DepthLimit == 5

\* `root.count(os.sep) - location.count(os.sep) > 5`
TooDeep(root, location) == count(root) - count(location) > DepthLimit

\* The body of the os.walk loop for one yielded directory: the paths it
\* appends to found_files and the sub-directories os.walk descends into.
visit(root, location, holders) ==
    [matches |-> LET hits == fnmatch_filter(ListFiles(root, holders), filename)
                 IN  [j \in 1..Len(hits) |-> join(root, hits[j])],
     dirs    |-> IF TooDeep(root, location) THEN << >>
                 ELSE LET names == ListDirs(root)
                      IN  [j \in 1..Len(names) |-> join(root, names[j])]]

SearchInit ==
    /\ hasFile \in SUBSET FileDirs
    /\ loop_i = 0
    /\ pc = "loop"
    /\ stack = << >>
    /\ found_files = << >>
    /\ canceled = FALSE
    /\ path_input = << >>

\* The head of `for i, location in enumerate(common_locations)`.
LoopHead ==
    /\ pc = "loop"
    /\ IF loop_i >= Len(common_locations) \/ canceled
       THEN /\ pc' = "after"
            /\ UNCHANGED <<loop_i, stack>>
       ELSE /\ pc' = "walk"
            /\ stack' = IF common_locations[loop_i + 1] \in Dirs
                        THEN <<common_locations[loop_i + 1]>> ELSE << >>
            /\ loop_i' = loop_i
    /\ UNCHANGED <<hasFile, found_files, canceled, path_input>>

\* The loop over os.walk without `if progress.wasCanceled(): break`.
WalkStep_NoCancelCheck ==
    /\ pc = "walk"
    /\ IF stack = << >>
       THEN /\ pc' = "loop"
            /\ loop_i' = loop_i + 1
            /\ stack' = << >>
            /\ found_files' = found_files
       ELSE LET v == visit(Head(stack), common_locations[loop_i + 1], hasFile)
            IN  /\ found_files' = found_files \o v.matches
                /\ stack' = v.dirs \o Tail(stack)
                /\ UNCHANGED <<pc, loop_i>>
    /\ UNCHANGED <<hasFile, canceled, path_input>>

\* One turn of `for root, dirs, files in os.walk(location)`.
WalkStep ==
    /\ pc = "walk"
    /\ IF stack = << >> \/ canceled
       THEN /\ pc' = "loop"
            /\ loop_i' = loop_i + 1
            /\ stack' = << >>
            /\ found_files' = found_files
       ELSE LET v == visit(Head(stack), common_locations[loop_i + 1], hasFile)
            IN  /\ found_files' = found_files \o v.matches
                /\ stack' = v.dirs \o Tail(stack)
                /\ UNCHANGED <<pc, loop_i>>
    /\ UNCHANGED <<hasFile, canceled, path_input>>

\* The user presses Cancel on the progress dialog.
Cancel ==
    /\ pc \in {"loop", "walk"}
    /\ ~canceled
    /\ canceled' = TRUE
    /\ UNCHANGED <<hasFile, loop_i, pc, stack, found_files, path_input>>

\* "Show results": one file is taken directly, several are offered in
\* QInputDialog.getItem, none gives a message box.
ShowResults ==
    /\ pc = "after"
    /\ pc' = "done"
    /\ IF Len(found_files) = 1 THEN path_input' = found_files[1]
       ELSE IF Len(found_files) > 1
       THEN \E ok \in BOOLEAN, k \in 1..Len(found_files) :
               path_input' = IF ok THEN found_files[k] ELSE path_input
       ELSE path_input' = path_input
    /\ UNCHANGED <<hasFile, loop_i, stack, found_files, canceled>>

\* The os.walk loop over one location run to its end, never cancelled:
\* what it appends to found_files.
RECURSIVE WalkAll(_, _, _)
WalkAll(stk, location, holders) ==
    IF stk = << >> THEN << >>
    ELSE LET v == visit(Head(stk), location, holders)
         IN  v.matches \o WalkAll(v.dirs \o Tail(stk), location, holders)

\* The loop over common_locations from index k on, never cancelled.
RECURSIVE SearchFrom(_, _)
SearchFrom(k, holders) ==
    IF k >= Len(common_locations) THEN << >>
    ELSE WalkAll(IF common_locations[k + 1] \in Dirs
                 THEN <<common_locations[k + 1]>> ELSE << >>,
                 common_locations[k + 1], holders)
         \o SearchFrom(k + 1, holders)

\* --------------------------------------------------------- specifications

vars == <<storeVars, searchVars, watchVars>>

\* No search is running.
SearchIdle ==
    /\ hasFile = {}
    /\ loop_i = 0
    /\ pc = "done"
    /\ stack = << >>
    /\ found_files = << >>
    /\ canceled = FALSE
    /\ path_input = << >>

Init == StoreInit /\ SearchIdle /\ WatchIdle

\* The store on a healthy disk, within one tick of the clock.
Next ==
    \/ Construct /\ UNCHANGED <<searchVars, watchVars>>
    \/ AddFavorite(RawPaths, OneTick, {""}, Healthy, MaxFav) /\ UNCHANGED <<searchVars, watchVars>>
    \/ RemoveFavorite(Healthy, MaxFav) /\ UNCHANGED <<searchVars, watchVars>>
    \/ UpdateFavoritePath(RawPaths, OneTick, Healthy, MaxFav) /\ UNCHANGED <<searchVars, watchVars>>
    \/ RefreshList /\ UNCHANGED <<searchVars, watchVars>>

Spec == Init /\ [][Next]_vars

\* The store on a disk whose writes may fail.
DiskNext ==
    \/ Construct /\ UNCHANGED <<searchVars, watchVars>>
    \/ AddFavorite(FewPaths, OneTick, {""}, WriteOutcomes, FewFav) /\ UNCHANGED <<searchVars, watchVars>>
    \/ RemoveFavorite(WriteOutcomes, FewFav) /\ UNCHANGED <<searchVars, watchVars>>
    \/ UpdateFavoritePath(FewPaths, OneTick, WriteOutcomes, FewFav) /\ UNCHANGED <<searchVars, watchVars>>
    \/ RefreshList /\ UNCHANGED <<searchVars, watchVars>>

DiskSpec == Init /\ [][DiskNext]_vars

\* The store on a healthy disk, every reading of the clock possible.
ClockNext ==
    \/ Construct /\ UNCHANGED <<searchVars, watchVars>>
    \/ AddFavorite(FewPaths, Times, Descriptions, Healthy, FewFav) /\ UNCHANGED <<searchVars, watchVars>>
    \/ RemoveFavorite(Healthy, FewFav) /\ UNCHANGED <<searchVars, watchVars>>
    \/ UpdateFavoritePath(FewPaths, Times, Healthy, FewFav) /\ UNCHANGED <<searchVars, watchVars>>
    \/ RefreshList /\ UNCHANGED <<searchVars, watchVars>>

ClockSpec == Init /\ [][ClockNext]_vars

\* Favorites added with the watcher running, on a disk whose writes may
\* fail under the watcher.
WatchNext ==
    \/ Construct /\ UNCHANGED <<searchVars, watchVars>>
    \/ AddFavorite(WatchPaths, OneTick, {""}, Healthy, FewFav)
          /\ UNCHANGED <<searchVars, watchVars>>
    \/ OnMoved(WatchPaths, OneTick, WriteOutcomes) /\ UNCHANGED searchVars

WatchSpec == Init /\ [][WatchNext]_vars

\* A start of the program on any stored file, then the list saved as it
\* was loaded and loaded again.
RoundTripInit ==
    /\ favorites = << >>
    /\ file \in StoredFiles
    /\ phase = "start"
    /\ call = NoCall
    /\ ret = "none"
    /\ list_widget = << >>
    /\ failures = 0
    /\ SearchIdle
    /\ WatchIdle

RoundTripNext ==
    \/ Construct /\ UNCHANGED <<searchVars, watchVars>>
    \/ SaveAndReload /\ UNCHANGED <<searchVars, watchVars>>

RoundTripSpec == RoundTripInit /\ [][RoundTripNext]_vars

\* One run of FindMovedFileDialog.auto_search; the store is left alone.
SearchSpecInit ==
    /\ SearchInit
    /\ favorites = << >>
    /\ file = Absent
    /\ phase = "ready"
    /\ call = NoCall
    /\ ret = "none"
    /\ list_widget = << >>
    /\ failures = 0
    /\ WatchIdle

SearchSpecNext ==
    \/ LoopHead /\ UNCHANGED <<storeVars, watchVars>>
    \/ WalkStep /\ UNCHANGED <<storeVars, watchVars>>
    \/ Cancel /\ UNCHANGED <<storeVars, watchVars>>
    \/ ShowResults /\ UNCHANGED <<storeVars, watchVars>>

SearchSpec == SearchSpecInit /\ [][SearchSpecNext]_vars

\* ------------------------------------------------------------------ claims

MutatingOps == {"add", "remove", "update"}

NoDuplicatePaths(favs) ==
    \A m, n \in 1..Len(favs) : m # n => favs[m]["path"] # favs[n]["path"]

\* index inside [0, len)
InRange(favs, index) == 0 <= index /\ index < Len(favs)

\* The file holds exactly the list: parsing it gives back favs.
FileHolds(f, favs) == f.kind = "json" /\ json_load(f.doc) = favs

\* C1 as stated: after any sequence of add_favorite, remove_favorite and
\* update_favorite_path calls no two records have the same normalized path.
C1_UniquenessAsStated == NoDuplicatePaths(favorites)

\* C1 (amended): add_favorite and remove_favorite never make two records
\* share a path: a call of either on a list without duplicate paths leaves
\* a list without duplicate paths.  (update_favorite_path is not covered:
\* it checks nothing.)
C1_AddRemoveKeepUniqueness ==
    [][(call'.op \in {"add", "remove"} /\ NoDuplicatePaths(favorites))
           => NoDuplicatePaths(favorites')]_vars

\* Three records were added, each accepted because its path is new.
C1_Witness ==
    /\ call.op = "add"
    /\ ret = "ok"
    /\ Len(favorites) = 3
    /\ NoDuplicatePaths(favorites)

\* C2: add_favorite with a path whose normalized form is the path of a
\* record in the store returns failure and changes neither the list nor
\* the file (whatever a write would have done: none is attempted).
C2_DuplicateAddRejected ==
    [][(/\ call'.op = "add"
        /\ \E m \in 1..Len(favorites) :
              favorites[m]["path"] = normpath(call'.path))
           => (/\ ret' = "fail"
               /\ favorites' = favorites
               /\ file' = file
               /\ failures' = failures)]_vars

\* A path that is a duplicate only after normalization was rejected.
C2_Witness ==
    /\ call.op = "add"
    /\ ret = "fail"
    /\ normpath(call.path) # call.path
    /\ \E m \in 1..Len(favorites) : favorites[m]["path"] = normpath(call.path)

\* C3 as stated: an index outside [0, len) makes remove_favorite and
\* update_favorite_path fail without changing list or file; an index
\* inside makes them succeed.
C3_IndexValidityAsStated ==
    [][call'.op \in {"remove", "update"}
           => IF InRange(favorites, call'.index)
              THEN ret' = "ok"
              ELSE ret' = "fail" /\ favorites' = favorites /\ file' = file]_vars

\* C3 (amended): an index outside [0, len) makes remove_favorite and
\* update_favorite_path fail without changing list or file; with an index
\* inside they succeed unless the write of the storage file fails, and then
\* the exception of the write reaches the caller.
C3_IndexValidity ==
    [][call'.op \in {"remove", "update"}
           => IF InRange(favorites, call'.index)
              THEN \/ ret' = "ok" /\ failures' = failures
                   \/ ret' = "raise" /\ failures' = failures + 1
              ELSE ret' = "fail" /\ favorites' = favorites /\ file' = file]_vars

\* A negative index was refused on a store that holds records.
C3_Witness ==
    /\ call.op = "remove"
    /\ call.index < 0
    /\ ret = "fail"
    /\ Len(favorites) > 0

\* C4: when add_favorite, remove_favorite or update_favorite_path has
\* returned success, the storage file holds the in-memory list: the same
\* records with the same fields in the same order.
C4_SuccessMeansPersisted ==
    (call.op \in MutatingOps /\ ret = "ok") => FileHolds(file, favorites)

\* A relocation in a store of two records succeeded and is on disk.
C4_Witness ==
    /\ call.op = "update"
    /\ ret = "ok"
    /\ Len(favorites) = 2
    /\ "updated_on" \in DOMAIN favorites[Position(favorites, call.index)]
    /\ FileHolds(file, favorites)

\* C5: after a successful update_favorite_path(i, q) the record's path is
\* the normalized q, its updated_on is set and strictly later than its
\* added_on, and its added_on and description are unchanged.
C5_RelocationRoundTrip ==
    [][(call'.op = "update" /\ ret' = "ok")
           => LET k == call'.index + 1
              IN  /\ favorites'[k]["path"] = normpath(call'.path)
                  /\ "updated_on" \in DOMAIN favorites'[k]
                  /\ favorites'[k]["updated_on"] > favorites'[k]["added_on"]
                  /\ favorites'[k]["added_on"] = favorites[k]["added_on"]
                  /\ favorites'[k]["description"] = favorites[k]["description"]]_vars

\* Number of directories between the location searched and the file.
Components(path) == SelectSeq(Split(path), LAMBDA c : c # << >>)

Nesting(path, location) ==
    Len(Components(path)) - 1 - Len(Components(location))

\* C6: the auto search never appends to found_files a file that lies more
\* than 5 directory levels below the location being searched.
C6_SearchDepthBound ==
    [][\A k \in (Len(found_files) + 1)..Len(found_files') :
           Nesting(found_files'[k], common_locations[loop_i + 1]) <= 5]_vars

IsPrefix(s, t) == Len(s) <= Len(t) /\ SubSeq(t, 1, Len(s)) = s

\* C7: once cancellation is signalled nothing more is appended to
\* found_files, os.walk descends into no further directory and no further
\* location is started; the search goes on to show what it has, which is
\* a prefix of the result of the search left to run (and the whole of it
\* when nobody cancels).
C7_Cancellation ==
    /\ [](IsPrefix(found_files, SearchFrom(0, hasFile)))
    /\ []((pc = "done" /\ ~canceled) => found_files = SearchFrom(0, hasFile))
    /\ [][canceled => /\ found_files' = found_files
                      /\ stack' = stack \/ stack' = << >>
                      /\ pc' # pc => \/ pc = "walk" /\ pc' = "loop"
                                     \/ pc = "loop" /\ pc' = "after"
                                     \/ pc = "after" /\ pc' = "done"]_vars

\* A cancelled search ended with some, not all, of the files.
C7_Witness ==
    /\ canceled
    /\ pc = "done"
    /\ Len(found_files) > 0
    /\ found_files # SearchFrom(0, hasFile)

\* C8: a write of the storage file that fails in add_favorite,
\* remove_favorite or update_favorite_path never ends in a return of
\* success (the exception reaches the caller); the list keeps the change
\* the call made, the file is as it was or cut short, and the manager
\* stays in service.
C8_WriteFailure ==
    [][(call'.op \in MutatingOps /\ failures' = failures + 1)
           => /\ ret' = "raise"
              /\ phase' = "ready"
              /\ file' = file \/ file' = Malformed
              /\ call'.op = "add" =>
                    /\ Len(favorites') = Len(favorites) + 1
                    /\ favorites'[Len(favorites')]["path"] = normpath(call'.path)
              /\ call'.op = "remove" => Len(favorites') = Len(favorites) - 1
              /\ call'.op = "update" =>
                    favorites'[call'.index + 1]["path"] = normpath(call'.path)]_vars

\* A removal whose write failed: the record is gone from the list and
\* still in the file.
C8_Witness ==
    /\ call.op = "remove"
    /\ ret = "raise"
    /\ file.kind = "json"
    /\ Len(json_load(file.doc)) = Len(favorites) + 1

\* C9: constructing the store on a storage file that is absent, or present
\* but not parseable, gives the empty list and no error, and leaves the
\* file as it was.
C9_LoadFallback ==
    [][(call'.op = "init" /\ file.kind \in {"absent", "malformed", "undecodable"})
           => /\ ret' = "ok"
              /\ favorites' = << >>
              /\ file' = file]_vars

\* C10: add_favorite appends at the end, remove_favorite keeps the other
\* records in their order, update_favorite_path moves nothing, and the list
\* shown after a success follows the order of the store.
C10_InsertionOrder ==
    [][/\ (call'.op = "add" /\ ret' # "fail") =>
             /\ Len(favorites') = Len(favorites) + 1
             /\ SubSeq(favorites', 1, Len(favorites)) = favorites
       /\ (call'.op = "remove" /\ ret' # "fail") =>
             /\ Len(favorites') = Len(favorites) - 1
             /\ \A j \in 1..Len(favorites') :
                   favorites'[j] = IF j <= call'.index THEN favorites[j]
                                   ELSE favorites[j + 1]
       /\ (call'.op = "update" /\ ret' # "fail") =>
             /\ Len(favorites') = Len(favorites)
             /\ \A j \in 1..Len(favorites) :
                   j # call'.index + 1 => favorites'[j] = favorites[j]
       /\ (call'.op \in MutatingOps /\ ret' = "ok") =>
             /\ Len(list_widget') = Len(favorites')
             /\ \A j \in 1..Len(favorites') :
                   list_widget'[j][1] = favorites'[j]["path"]]_vars

\* The first of three different records was removed and the other two
\* moved up, in their order.
C10_Witness ==
    /\ call.op = "remove"
    /\ call.index = 0
    /\ ret = "ok"
    /\ Len(favorites) = 2
    /\ favorites[1] # favorites[2]
    /\ Len(list_widget) = 2

\* The handling of a "moved" event whose source is the path of a record
\* has put the normalized destination in one such record and left the
\* others as they were.
Relocated(favs, favs2, ev) ==
    /\ Len(favs2) = Len(favs)
    /\ \E k \in Matching(favs, ev.src_path) :
          /\ favs2[k]["path"] = normpath(ev.dest_path)
          /\ \A j \in 1..Len(favs) : j # k => favs2[j] = favs[j]

\* C11 as stated: handling a "moved" event whose normalized source is the
\* path of a record makes that record's path the normalized destination,
\* persisted, and emits exactly one refresh notification; an event whose
\* source matches no record changes nothing.
C11_WatcherRelocationAsStated ==
    [][call'.op = "moved"
       => IF Matching(favorites, event'.src_path) = {}
          THEN /\ UNCHANGED <<favorites, file, list_widget>>
               /\ signals' = 0
          ELSE /\ Relocated(favorites, favorites', event')
               /\ FileHolds(file', favorites')
               /\ signals' = 1]_vars

\* C11 (amended): the same, the persistence and the single notification
\* holding when the write of the storage file succeeds; when it fails the
\* record is relocated in memory, the file is left as it was or truncated,
\* and the call ends in the exception of the write.
C11_WatcherRelocation ==
    [][call'.op = "moved"
       => IF Matching(favorites, event'.src_path) = {}
          THEN /\ UNCHANGED <<favorites, file, list_widget>>
               /\ signals' = 0
          ELSE /\ Relocated(favorites, favorites', event')
               /\ failures' = failures
                    => /\ ret' = "ok"
                       /\ FileHolds(file', favorites')
                       /\ signals' = 1
                       /\ list_widget' = refresh_list(favorites')
               /\ failures' # failures
                    => /\ ret' = "raise"
                       /\ file' \in {file, Malformed}]_vars

\* A "moved" event given with an unnormalized source and destination has
\* relocated the second of two records, in memory and in the file, and the
\* one notification has refreshed the list shown.
C11_Witness ==
    /\ call.op = "moved"
    /\ call.index = 1
    /\ ret = "ok"
    /\ event.src_path = <<"/", "a", "/">>
    /\ event.dest_path = <<"/", "a", "/", ".", ".", "/", "b">>
    /\ Len(favorites) = 2
    /\ favorites[2]["path"] = <<"/", "b">>
    /\ "updated_on" \in DOMAIN favorites[2]
    /\ FileHolds(file, favorites)
    /\ signals = 1
    /\ list_widget = refresh_list(favorites)

\* C12: the list loaded from the storage file, saved as it is and loaded
\* again, is the same sequence of records: same paths, descriptions,
\* added_on and updated_on where present, in the same order.
C12_LoadSaveRoundTrip ==
    [][call'.op = "reload"
       => /\ ret' = "ok"
          /\ favorites' = favorites
          /\ Len(favorites') = Len(favorites)
          /\ \A i \in 1..Len(favorites) :
                /\ DOMAIN favorites'[i] = DOMAIN favorites[i]
                /\ \A k \in DOMAIN favorites[i] :
                      favorites'[i][k] = favorites[i][k]]_vars

\* Two records, the second one relocated, have been loaded, saved as they
\* were and loaded again.
C12_Witness ==
    /\ call.op = "reload"
    /\ ret = "ok"
    /\ Len(favorites) = 2
    /\ favorites[1]["path"] # favorites[2]["path"]
    /\ "updated_on" \notin DOMAIN favorites[1]
    /\ "updated_on" \in DOMAIN favorites[2]
    /\ favorites[2]["updated_on"] = MaxTime
    /\ file = JsonFile(json_dump(favorites))

\* C13: the candidates found by one auto search hold each file path at
\* most once, also where a search root lies below another one, so a file
\* that is on disk once is the single match and is taken as the new path.
C13_CandidatesUnique ==
    /\ \A m, n \in 1..Len(found_files) :
          m # n => found_files[m] # found_files[n]
    /\ (pc = "done" /\ ~canceled /\ Cardinality(hasFile) = 1
            /\ found_files # << >>)
          => /\ Len(found_files) = 1
             /\ path_input = found_files[1]

====
